---- MODULE Spec2Model ----
(***************************************************************************)
(* A model of code/msd_analysis_protein.py: Brownian-motion simulation     *)
(* (underdamped / overdamped Langevin), mean squared displacement, and the *)
(* log-log slope fit, together with the main pipeline that chains them.    *)
(*                                                                         *)
(* Numbers.  The program computes in float64.  The model computes in exact *)
(* rationals <<n, d>> (d > 0, lowest terms) extended with the IEEE values  *)
(* the program can produce: NaN = <<0,0>>, +inf = <<1,0>>, -inf = <<-1,0>>.*)
(* Rounding of positions and MSD values is not modelled.  The time axis,   *)
(* whose rounding decides which samples the fit window admits, is float64  *)
(* bit for bit.  Physical quantities are expressed in units in which       *)
(* 6*pi*eta = 1 and kB*T_kelvin = 2.                                       *)
(*                                                                         *)
(* Arrays.  A numpy array a of length N is the sequence <<a[0],...,a[N-1]>>,*)
(* so Python index k is TLA+ index k+1.                                    *)
(*                                                                         *)
(* Library calls.  np.random is a process-wide generator: a state, a       *)
(* seeding function and a draw that advances the state.  np.log10 and      *)
(* np.polyfit are kept as terms over their arguments; what is modelled of  *)
(* them is where they are undefined or raise.                              *)
(***************************************************************************)
EXTENDS Integers, Sequences, FiniteSets, TLC

VARIABLES
    pc,         \* position of the running code
    rng,        \* state of the process-wide generator np.random
    inputs,     \* the inputs dict
    gamma, D, N, time,      \* results of initialize_parameters
    x, y, vx, vy, i,        \* locals of simulate_*
    msd_total,              \* main: msd_x + msd_y
    fit,                    \* main: result of compute_log_slope
    printed, plotted,       \* main: what was printed / plotted
    err,                    \* the exception that ended the run, or "none"
    arg, res,               \* argument and result of a function called on its own
    rngAtCall,              \* history: rng when simulate_* was entered
    drawlog,                \* history: the draws of the current simulate_* call
    ref                     \* history: an earlier completed simulation

vars == <<pc, rng, inputs, gamma, D, N, time, x, y, vx, vy, i, msd_total, fit,
          printed, plotted, err, arg, res, rngAtCall, drawlog, ref>>

None == "none"

-----------------------------------------------------------------------------
(* Bounds of the model *)

RngMod   == 8      \* number of states of the modelled generator
MaxN     == 3      \* longest trajectory of the simulation specification
MaxLen   == 4      \* longest sequence given to compute_msd on its own
MaxCoord == 2      \* positions given to compute_msd range over -1..MaxCoord
MaxSamples == 32   \* longest trajectory of the main pipeline
MaxFitLen == 3     \* longest series given to compute_log_slope on its own

-----------------------------------------------------------------------------
(* float64 arithmetic, as extended rationals *)

Abs(n) == IF n < 0 THEN -n ELSE n

Sign(n) == IF n < 0 THEN -1 ELSE IF n > 0 THEN 1 ELSE 0

RECURSIVE GCD(_, _)
GCD(a, b) == IF b = 0 THEN a ELSE GCD(b, a % b)

NaN    == <<0, 0>>
PosInf == <<1, 0>>
NegInf == <<-1, 0>>

IsNaN(q)    == q = NaN
IsInf(q)    == q[2] = 0 /\ q[1] # 0
IsFinite(q) == q[2] # 0

Norm(n, d) ==
    LET g == GCD(Abs(n), Abs(d))
        s == IF d < 0 THEN -1 ELSE 1
    IN  <<(s * n) \div g, (s * d) \div g>>

R(n) == <<n, 1>>

RNeg(a) == <<-a[1], a[2]>>

RAdd(a, b) ==
    IF IsNaN(a) \/ IsNaN(b) THEN NaN
    ELSE IF IsInf(a) /\ IsInf(b) THEN (IF a = b THEN a ELSE NaN)
    ELSE IF IsInf(a) THEN a
    ELSE IF IsInf(b) THEN b
    ELSE Norm(a[1] * b[2] + b[1] * a[2], a[2] * b[2])

RSub(a, b) == RAdd(a, RNeg(b))

RMul(a, b) ==
    IF IsNaN(a) \/ IsNaN(b) THEN NaN
    ELSE IF IsInf(a) \/ IsInf(b) THEN <<Sign(a[1]) * Sign(b[1]), 0>>
    ELSE Norm(a[1] * b[1], a[2] * b[2])

\* numpy float64 division: x/0 is +-inf or nan (a warning, no exception)
RDiv(a, b) ==
    IF IsNaN(a) \/ IsNaN(b) THEN NaN
    ELSE IF IsInf(b) THEN (IF IsInf(a) THEN NaN ELSE R(0))
    ELSE IF IsInf(a) THEN <<Sign(a[1]) * (IF b[1] < 0 THEN -1 ELSE 1), 0>>
    ELSE IF b[1] = 0 THEN <<Sign(a[1]), 0>>
    ELSE Norm(a[1] * b[2], a[2] * b[1])

\* comparisons: every comparison with NaN is false
RLt(a, b) ==
    /\ ~IsNaN(a) /\ ~IsNaN(b)
    /\ a # b
    /\ IF IsInf(a) THEN a = NegInf
       ELSE IF IsInf(b) THEN b = PosInf
       ELSE a[1] * b[2] < b[1] * a[2]

RGt(a, b) == RLt(b, a)

\* np.sqrt: nan (with a warning) below zero.  The inputs of the model are
\* chosen so that every non-negative radicand is the square of a rational.
ISqrt(n) == CHOOSE r \in 0..n : r * r = n

RSqrt(q) ==
    IF IsNaN(q) THEN NaN
    ELSE IF IsInf(q) THEN (IF q = PosInf THEN PosInf ELSE NaN)
    ELSE IF q[1] < 0 THEN NaN
    ELSE <<ISqrt(q[1]), ISqrt(q[2])>>

HasSqrt(q) ==
    \/ ~IsFinite(q)
    \/ q[1] < 0
    \/ /\ \E r \in 0..q[1] : r * r = q[1]
       /\ \E r \in 0..q[2] : r * r = q[2]

-----------------------------------------------------------------------------
(* np.random: the process-wide generator *)

\* np.random.seed(s): the state is a function of the seed alone
SeedState(s) == s % RngMod

\* the state after one draw
NextRng(s) == (5 * s + 3) % RngMod

\* np.random.randn(): the value drawn in state s
Randn(s) == R((s % 5) - 2)

Seed == 42

-----------------------------------------------------------------------------
(* numpy arrays *)

At(a, k) == a[k + 1]                        \* a[k]

Put(a, k, v) == [a EXCEPT ![k + 1] = v]     \* a[k] = v

Zeros(n) == [k \in 1..n |-> R(0)]           \* np.zeros(n)

From(a, k) == [j \in 1..(Len(a) - k) |-> a[j + k]]      \* a[k:]

DropLast(a, k) == [j \in 1..(Len(a) - k) |-> a[j]]      \* a[:-k], k >= 1

-----------------------------------------------------------------------------
(* float64, bit for bit, for the time axis.  Whether a sample lies strictly *)
(* inside the fit window is decided by comparing rounded values, so the    *)
(* time axis is computed as the program computes it: a value is            *)
(*   [s |-> sign, e |-> exponent, m |-> 53 bits, most significant first],  *)
(* standing for s * 1.m[2]m[3]... * 2^e; zero has s = 0.                   *)

MantBits == 53

\* Multi-digit arithmetic works on digits of ChunkBits bits.
ChunkBits == 13

FZero == [s |-> 0, e |-> 0, m |-> [k \in 1..MantBits |-> 0]]

\* bit j (1 = most significant) of v written with w bits
BitAt(v, w, j) == (v \div (2 ^ (w - j))) % 2

\* the w-bit numbers ds, as one bit sequence
DigitsToBits(ds, w) ==
    [n \in 1..(w * Len(ds)) |-> BitAt(ds[((n - 1) \div w) + 1], w, ((n - 1) % w) + 1)]

\* the number written by bits from..to of b
RECURSIVE BitsValue(_, _, _)
BitsValue(b, from, to) ==
    IF to < from THEN 0 ELSE 2 * BitsValue(b, from, to - 1) + b[to]

\* b, padded with zeros on the left to a multiple of ChunkBits, as digits
BitsToDigits(b) ==
    LET n   == (Len(b) + ChunkBits - 1) \div ChunkBits
        pad == n * ChunkBits - Len(b)
        bit(k) == IF k <= pad THEN 0 ELSE b[k - pad]
        padded == [k \in 1..(n * ChunkBits) |-> bit(k)]
    IN  [c \in 1..n |-> BitsValue(padded, (c - 1) * ChunkBits + 1, c * ChunkBits)]

\* position of the first 1 in a bit sequence, Len + 1 if there is none
RECURSIVE FirstOneFrom(_, _)
FirstOneFrom(b, p) ==
    IF p > Len(b) THEN p ELSE IF b[p] = 1 THEN p ELSE FirstOneFrom(b, p + 1)

FirstOne(b) == FirstOneFrom(b, 1)

\* a bit sequence that is not all ones, plus one
Incr(b) ==
    LET z == CHOOSE p \in 1..Len(b) : b[p] = 0 /\ \A j \in (p + 1)..Len(b) : b[j] = 1
    IN  [k \in 1..Len(b) |-> IF k < z THEN b[k] ELSE IF k = z THEN 1 ELSE 0]

\* Round to nearest, ties to even: b holds the exact leading bits of the
\* magnitude, position 1 having weight 2^top; sticky tells whether non-zero
\* digits follow b.
RoundBits(sgn, b, top, sticky) ==
    LET p     == FirstOne(b)
        ext   == b \o [k \in 1..(MantBits + 1) |-> 0]
        mant  == SubSeq(ext, p, p + MantBits - 1)
        guard == ext[p + MantBits]
        rest  == sticky \/ \E k \in (p + MantBits + 1)..Len(b) : b[k] = 1
        up    == guard = 1 /\ (rest \/ mant[MantBits] = 1)
        ones  == \A k \in 1..MantBits : mant[k] = 1
    IN  IF p > Len(b) THEN FZero
        ELSE IF ~up THEN [s |-> sgn, e |-> top - (p - 1), m |-> mant]
        ELSE IF ones THEN [s |-> sgn, e |-> top - (p - 1) + 1,
                           m |-> [k \in 1..MantBits |-> IF k = 1 THEN 1 ELSE 0]]
        ELSE [s |-> sgn, e |-> top - (p - 1), m |-> Incr(mant)]

\* float(n) for an integer n, |n| < 2^31
FromInt(n) ==
    RoundBits(Sign(n), [j \in 1..31 |-> BitAt(Abs(n), 31, j)], 30, FALSE)

\* long division of the digits ds[1..j] by k: <<quotient digits, remainder>>
RECURSIVE LongDiv(_, _, _)
LongDiv(ds, k, j) ==
    IF j = 0 THEN <<<<>>, 0>>
    ELSE LET prev == LongDiv(ds, k, j - 1)
             t    == prev[2] * (2 ^ ChunkBits) + ds[j]
         IN  <<Append(prev[1], t \div k), t % k>>

\* f / k for an integer k, 0 < k < 2^17
FDivInt(f, k) ==
    LET ext == f.m \o [j \in 1..(3 * ChunkBits - 1) |-> 0]
        ds  == BitsToDigits(ext)
        qr  == LongDiv(ds, k, Len(ds))
    IN  IF f.s = 0 THEN FZero
        ELSE RoundBits(f.s, DigitsToBits(qr[1], ChunkBits),
                       f.e + (Len(ds) * ChunkBits - Len(ext)), qr[2] # 0)

\* the digits ds[j..Len(ds)] times k: <<product digits, carry out>>
RECURSIVE LongMul(_, _, _)
LongMul(ds, k, j) ==
    IF j > Len(ds) THEN <<<<>>, 0>>
    ELSE LET low == LongMul(ds, k, j + 1)
             t   == ds[j] * k + low[2]
         IN  <<<<t % (2 ^ ChunkBits)>> \o low[1], t \div (2 ^ ChunkBits)>>

\* k * f for an integer k, 0 <= k < 2^17
FMulInt(k, f) ==
    LET ds   == BitsToDigits(f.m)
        pr   == LongMul(ds, k, 1)
        bits == DigitsToBits(<<pr[2]>> \o pr[1], ChunkBits)
    IN  IF f.s = 0 \/ k = 0 THEN FZero
        ELSE RoundBits(f.s, bits, f.e + (Len(bits) - MantBits), FALSE)

\* a < b on magnitudes of non-zero values
MantLess(a, b) ==
    \E k \in 1..MantBits : a[k] < b[k] /\ \A j \in 1..(k - 1) : a[j] = b[j]

MagLess(a, b) == a.e < b.e \/ (a.e = b.e /\ MantLess(a.m, b.m))

FLt(a, b) ==
    IF a.s # b.s THEN a.s < b.s
    ELSE IF a.s = 0 THEN FALSE
    ELSE IF a.s = 1 THEN MagLess(a, b)
    ELSE MagLess(b, a)

FGt(a, b) == FLt(b, a)

\* float(q) for a rational q = n/d typed as a decimal: the float64 nearest
\* to n/d, |n| < 2^31, 0 < d < 2^17
ToFloat(q) == IF q[2] = 1 THEN FromInt(q[1]) ELSE FDivInt(FromInt(q[1]), q[2])

\* Division of two mantissas works on numbers <<hi, lo>> of two limbs,
\* hi * 2^HalfBits + lo with lo < 2^HalfBits.
HalfBits == 27

\* the mantissa m as two limbs
Limbs(m) ==
    <<BitsValue(m, 1, MantBits - HalfBits), BitsValue(m, MantBits - HalfBits + 1, MantBits)>>

LLess(a, b) == a[1] < b[1] \/ (a[1] = b[1] /\ a[2] < b[2])

\* a - b for a >= b
LSub(a, b) ==
    IF a[2] >= b[2] THEN <<a[1] - b[1], a[2] - b[2]>>
    ELSE <<a[1] - b[1] - 1, a[2] - b[2] + 2 ^ HalfBits>>

\* 2 * a + bit
LDouble(a, bit) ==
    <<2 * a[1] + (a[2] \div (2 ^ (HalfBits - 1))), ((2 * a[2]) % (2 ^ HalfBits)) + bit>>

\* one step of binary long division by b: st.r is the remainder (below b),
\* st.q the quotient so far, st.n the number of its bits
DivStep(st, b) ==
    LET d == LDouble(st.r, 0)
    IN  IF LLess(d, b) THEN [r |-> d, q |-> LDouble(st.q, 0), n |-> st.n + 1]
        ELSE [r |-> LSub(d, b), q |-> LDouble(st.q, 1), n |-> st.n + 1]

RECURSIVE DivSteps(_, _, _)
DivSteps(st, b, n) ==
    IF st.n >= n THEN st ELSE DivSteps(DivStep(st, b), b, n)

\* the w bits of the two-limb number a, most significant first
LimbBits(a, w) ==
    [k \in 1..w |-> IF k <= w - HalfBits THEN BitAt(a[1], w - HalfBits, k)
                    ELSE BitAt(a[2], HalfBits, k - (w - HalfBits))]

\* a / b in float64 for a finite a and a finite non-zero b: the quotient of
\* the two mantissas to MantBits + 3 bits, then rounded
FDiv(a, b) ==
    LET am == Limbs(a.m)
        bm == Limbs(b.m)
        st == DivSteps(IF LLess(am, bm) THEN [r |-> am, q |-> <<0, 0>>, n |-> 1]
                       ELSE [r |-> LSub(am, bm), q |-> <<0, 1>>, n |-> 1],
                       bm, MantBits + 3)
    IN  IF a.s = 0 THEN FZero
        ELSE RoundBits(a.s * b.s, LimbBits(st.q, MantBits + 3), a.e - b.e, st.r # <<0, 0>>)

\* int(f): truncation toward zero, |f| < 2^31
FTrunc(f) ==
    IF f.s = 0 \/ f.e < 0 THEN 0 ELSE f.s * BitsValue(f.m, 1, f.e + 1)

\* np.linspace(0, stop, n) for n >= 0:
\*   step = stop / (n - 1);  y = arange(n) * step;  y[-1] = stop
Linspace(stop, n) ==
    LET step == FDivInt(stop, n - 1)
    IN  [k \in 1..n |-> IF n = 1 THEN FZero
                        ELSE IF k = n THEN stop
                        ELSE FMulInt(k - 1, step)]

-----------------------------------------------------------------------------
(* initialize_parameters *)

kB       == R(2)    \* Boltzmann constant, in model units
T_kelvin == R(1)    \* temperature, in model units
SixPiEta == R(1)    \* 6 * np.pi * eta, in model units

Gamma(in) == RMul(SixPiEta, in.radius)

\* int(inputs['T'] / inputs['dt']): the float64 quotient of the two floats,
\* truncated (0.3 / 0.1 is 2.9999999999999996 and gives 2)
NumSamples(in) == FTrunc(FDiv(ToFloat(in.T), ToFloat(in.dt)))

\* The values returned, or the exception raised.  The operands are Python
\* floats: dividing by zero raises; np.linspace rejects a negative count.
initialize_parameters(in) ==
    IF Gamma(in) = R(0) THEN [err |-> "ZeroDivisionError"]
    ELSE IF in.dt = R(0) THEN [err |-> "ZeroDivisionError"]
    ELSE LET n == NumSamples(in) IN
         IF n < 0 THEN [err |-> "ValueError"]
         ELSE [err      |-> None,
               gamma    |-> Gamma(in),
               D        |-> RDiv(RMul(kB, T_kelvin), Gamma(in)),
               N        |-> n,
               time     |-> Linspace(ToFloat(in.T), n),
               kB       |-> kB,
               T_kelvin |-> T_kelvin]

InitializeParameters ==
    /\ pc = "init"
    /\ \E p \in {initialize_parameters(inputs)} :
         IF p.err # None
         THEN /\ pc' = "error"
              /\ err' = p.err
              /\ UNCHANGED <<gamma, D, N, time>>
         ELSE /\ pc' = "simulate"
              /\ gamma' = p.gamma
              /\ D' = p.D
              /\ N' = p.N
              /\ time' = p.time
              /\ err' = None
    /\ UNCHANGED <<rng, inputs, x, y, vx, vy, i, msd_total, fit, printed, plotted,
                   arg, res, rngAtCall, drawlog, ref>>

-----------------------------------------------------------------------------
(* simulate_underdamped, simulate_overdamped *)

\* the generator left as the caller had it
KeepGenerator(s) == s

\* np.random.seed(42)
SeedGenerator(s) == SeedState(Seed)

\* the origin stored in the last entry
OriginAtEnd(n, v0) == Put(Zeros(n), n - 1, v0)

\* x, y = np.zeros(N), np.zeros(N);  x[0], y[0] = inputs['x0'], inputs['y0']
Origin(n, v0) == Put(Zeros(n), 0, v0)

\* the noise amplitudes
SigmaUnder(g, dt) ==
    RSqrt(RDiv(RMul(RMul(RMul(R(2), g), kB), T_kelvin), dt))

SigmaOver(d, dt) == RSqrt(RMul(RMul(R(2), d), dt))

\* Entry of either function up to the loop: seed, allocate, set the origin.
\* With N = 0 the assignment x[0] = ... raises IndexError.
SimulateEnter ==
    /\ pc = "simulate"
    /\ rngAtCall' = rng
    /\ rng' = SeedGenerator(rng)
    /\ drawlog' = <<>>
    /\ IF N = 0
       THEN /\ pc' = "error"
            /\ err' = "IndexError"
            /\ x' = Zeros(0) /\ y' = Zeros(0)
            /\ vx' = <<>> /\ vy' = <<>>
            /\ i' = 0
       ELSE /\ pc' = "loop"
            /\ err' = None
            /\ x' = Origin(N, inputs.x0)
            /\ y' = Origin(N, inputs.y0)
            /\ vx' = IF inputs.is_underdamped THEN Zeros(N) ELSE <<>>
            /\ vy' = IF inputs.is_underdamped THEN Zeros(N) ELSE <<>>
            /\ i' = 1
    /\ UNCHANGED <<inputs, gamma, D, N, time, msd_total, fit, printed, plotted,
                   arg, res, ref>>

\* the velocity after one Euler step: v + ((-gamma*v + sigma*z) / mass) * dt
VelocityStep(v, z, g, sigma, mass, dt) ==
    RAdd(v, RMul(RDiv(RAdd(RMul(RNeg(g), v), RMul(sigma, z)), mass), dt))

\* the position after one Euler step, from the velocity just computed
PositionStep(p, vnew, dt) == RAdd(p, RMul(vnew, dt))

\* the two draws of one iteration: the first for x, the second for y
DrawX(s) == Randn(s)
\* the x draw used again
DrawSame(s) == Randn(s)
DrawY(s) == Randn(NextRng(s))
AfterDraws(s) == NextRng(NextRng(s))

LogDraws(log, step, s) ==
    log \o << [axis |-> "x", step |-> step, pos |-> Len(log) + 1, val |-> DrawX(s)],
              [axis |-> "y", step |-> step, pos |-> Len(log) + 2, val |-> DrawY(s)] >>

\* one iteration of: for i in range(1, N)   (simulate_underdamped)
UnderdampedStep ==
    /\ pc = "loop" /\ inputs.is_underdamped /\ i < N
    /\ LET sigma == SigmaUnder(gamma, inputs.dt)
           vxi   == VelocityStep(At(vx, i-1), DrawX(rng), gamma, sigma, inputs.mass, inputs.dt)
           vyi   == VelocityStep(At(vy, i-1), DrawY(rng), gamma, sigma, inputs.mass, inputs.dt)
       IN  /\ vx' = Put(vx, i, vxi)
           /\ vy' = Put(vy, i, vyi)
           /\ x' = Put(x, i, PositionStep(At(x, i-1), vxi, inputs.dt))
           /\ y' = Put(y, i, PositionStep(At(y, i-1), vyi, inputs.dt))
    /\ rng' = AfterDraws(rng)
    /\ drawlog' = LogDraws(drawlog, i, rng)
    /\ i' = i + 1
    /\ UNCHANGED <<pc, inputs, gamma, D, N, time, msd_total, fit, printed, plotted,
                   err, arg, res, rngAtCall, ref>>

\* the position after one overdamped step: p + sqrt(2*D*dt) * z
WalkStep(p, z, d, dt) == RAdd(p, RMul(SigmaOver(d, dt), z))

\* one iteration of: for i in range(1, N)   (simulate_overdamped)
OverdampedStep ==
    /\ pc = "loop" /\ ~inputs.is_underdamped /\ i < N
    /\ x' = Put(x, i, WalkStep(At(x, i-1), DrawX(rng), D, inputs.dt))
    /\ y' = Put(y, i, WalkStep(At(y, i-1), DrawY(rng), D, inputs.dt))
    /\ rng' = AfterDraws(rng)
    /\ drawlog' = LogDraws(drawlog, i, rng)
    /\ i' = i + 1
    /\ UNCHANGED <<pc, inputs, gamma, D, N, time, vx, vy, msd_total, fit, printed,
                   plotted, err, arg, res, rngAtCall, ref>>

\* return x, y.  With track, the history variable ref may keep this run for
\* comparison with a later one, with whether the generator was in its seeded
\* state when the run was entered.
SimulateReturn(track) ==
    /\ pc = "loop" /\ i >= N
    /\ pc' = "sim_returned"
    /\ ref' \in IF track THEN {ref, << [inputs |-> inputs, x |-> x, y |-> y, seeded |-> (rngAtCall = SeedState(Seed))] >>} ELSE {ref}
    /\ UNCHANGED <<rng, inputs, gamma, D, N, time, x, y, vx, vy, i, msd_total, fit,
                   printed, plotted, err, arg, res, rngAtCall, drawlog>>

-----------------------------------------------------------------------------
(* compute_msd *)

RECURSIVE SumSeq(_, _)
SumSeq(a, k) == IF k = 0 THEN R(0) ELSE RAdd(SumSeq(a, k - 1), a[k])

\* the sum divided by one less than the number of entries
MeanOverGaps(a) == RDiv(SumSeq(a, Len(a)), R(Len(a) - 1))

\* np.mean of a non-empty array
Mean(a) == RDiv(SumSeq(a, Len(a)), R(Len(a)))

\* r[lag:] - r[:-lag]
Diffs(r, lag) ==
    [j \in 1..(Len(r) - lag) |-> RSub(From(r, lag)[j], DropLast(r, lag)[j])]

Squares(a) == [j \in 1..Len(a) |-> RMul(a[j], a[j])]

\* msd = np.zeros(N);  for lag in range(1, N): msd[lag] = np.mean(diffs**2)
compute_msd(r) ==
    [k \in 1..Len(r) |-> IF k = 1 THEN R(0) ELSE Mean(Squares(Diffs(r, k - 1)))]

\* msd_x + msd_y
TotalMsd(xs, ys) ==
    LET mx == compute_msd(xs)
        my == compute_msd(ys)
    IN  [k \in 1..Len(mx) |-> RAdd(mx[k], my[k])]

-----------------------------------------------------------------------------
(* compute_log_slope *)

\* np.log10 of a time (float64) and of an MSD value: a term over its
\* argument; -inf at zero and nan below zero (warnings, no exception)
Log10F(t) ==
    [of |-> t, val |-> IF t.s > 0 THEN "finite" ELSE IF t.s = 0 THEN "-inf" ELSE "nan"]

Log10R(q) ==
    [of  |-> q,
     val |-> IF IsNaN(q) THEN "nan"
             ELSE IF q = PosInf THEN "inf"
             ELSE IF q[1] < 0 THEN "nan"
             ELSE IF q[1] = 0 THEN "-inf"
             ELSE "finite"]

\* mask = (time > fit_range[0]) & (time < fit_range[1])
InWindow(t, lo, hi) == FGt(t, lo) /\ FLt(t, hi)

Mask(ts, lo, hi) == [k \in 1..Len(ts) |-> InWindow(ts[k], lo, hi)]

\* a[mask]: the entries of a where mask holds, in order
RECURSIVE Select(_, _, _)
Select(a, mask, k) ==
    IF k = 0 THEN <<>>
    ELSE IF mask[k] THEN Append(Select(a, mask, k - 1), a[k])
    ELSE Select(a, mask, k - 1)

\* np.polyfit(xs, ys, 1): the outcomes it can have.  An empty vector raises
\* TypeError.  A non-finite entry, or a column of the design matrix that is
\* all zero (every xs is log10(1)), reaches LAPACK's least-squares routine
\* as nan/inf: depending on the build it raises LinAlgError or returns nan.
\* Fewer than two distinct abscissae give a rank-deficient fit, which
\* returns the minimum-norm solution with a RankWarning.
Polyfit(xs, ys) ==
    LET nonfinite == \/ \E k \in 1..Len(xs) : xs[k].val # "finite"
                     \/ \E k \in 1..Len(ys) : ys[k].val # "finite"
                     \/ \A k \in 1..Len(xs) : xs[k].of = FromInt(1)
        term(v)   == [polyfit |-> <<xs, ys>>, val |-> v,
                      rank_warning |-> \A j, k \in 1..Len(xs) : xs[j] = xs[k]]
    IN  IF Len(xs) = 0 THEN {[err |-> "TypeError", slope |-> <<>>]}
        ELSE IF nonfinite
             THEN {[err |-> "LinAlgError", slope |-> <<>>],
                   [err |-> None, slope |-> <<term("nan")>>]}
        ELSE {[err |-> None, slope |-> <<term("finite")>>]}

\* What the call returns, or the exception it raises.  time and msd_total
\* have the same length, as at every call site.
\*   returns  slope, (log_time, log_msd)
compute_log_slope(ts, ms, fit_range) ==
    LET mask     == Mask(ts, fit_range[1], fit_range[2])
        st       == Select(ts, mask, Len(ts))
        sm       == Select(ms, mask, Len(ms))
        log_time == [k \in 1..Len(st) |-> Log10F(st[k])]
        log_msd  == [k \in 1..Len(sm) |-> Log10R(sm[k])]
    IN  { [status   |-> IF o.err = None THEN "returned" ELSE "raised",
           err      |-> o.err,
           slope    |-> o.slope,
           fit_data |-> IF o.err = None THEN <<log_time, log_msd>> ELSE <<>>]
          : o \in Polyfit(log_time, log_msd) }

NoFit == [status |-> "none", err |-> None, slope |-> <<>>, fit_data |-> <<>>]

-----------------------------------------------------------------------------
(* main *)

\* inputs = get_user_inputs(): the values typed, taken from a set
GetUserInputs(S) ==
    /\ pc = "input"
    /\ inputs' \in S
    /\ pc' = "init"
    /\ UNCHANGED <<rng, gamma, D, N, time, x, y, vx, vy, i, msd_total, fit, printed,
                   plotted, err, arg, res, rngAtCall, drawlog, ref>>

\* msd_x = compute_msd(x);  msd_y = compute_msd(y);  msd_total = msd_x + msd_y
ComputeMsd ==
    /\ pc = "sim_returned"
    /\ msd_total' = TotalMsd(x, y)
    /\ pc' = "fit"
    /\ UNCHANGED <<rng, inputs, gamma, D, N, time, x, y, vx, vy, i, fit, printed,
                   plotted, err, arg, res, rngAtCall, drawlog, ref>>

\* the window opened at time[0]
FitRangeFromZero(ts) == <<At(ts, 0), FDivInt(At(ts, Len(ts) - 1), 10)>>

\* fit_range=(time[1], time[-1] / 10)
FitRange(ts) == <<At(ts, 1), FDivInt(At(ts, Len(ts) - 1), 10)>>

\* slope, fit_data = compute_log_slope(time[1:], msd_total[1:], fit_range=...)
\* With a single sample time[1] raises IndexError.
ComputeLogSlope ==
    /\ pc = "fit"
    /\ IF Len(time) < 2
       THEN /\ pc' = "error"
            /\ err' = "IndexError"
            /\ fit' = fit
       ELSE \E o \in compute_log_slope(From(time, 1), From(msd_total, 1), FitRange(time)) :
              /\ fit' = o
              /\ err' = o.err
              /\ pc' = IF o.err = None THEN "print" ELSE "error"
    /\ UNCHANGED <<rng, inputs, gamma, D, N, time, x, y, vx, vy, i, msd_total, printed,
                   plotted, arg, res, rngAtCall, drawlog, ref>>

\* print(f"Estimated slope of log-log MSD: {slope:.3f}")
PrintSlope ==
    /\ pc = "print"
    /\ printed' = fit.slope
    /\ pc' = "plot"
    /\ UNCHANGED <<rng, inputs, gamma, D, N, time, x, y, vx, vy, i, msd_total, fit,
                   plotted, err, arg, res, rngAtCall, drawlog, ref>>

\* plot_log_msd(time, msd_total, slope, fit_data): the second polyfit, on the
\* arrays the first one accepted, has the first one's outcome
PlotLogMsd ==
    /\ pc = "plot"
    /\ plotted' = << [time |-> time, msd_total |-> msd_total,
                      slope |-> fit.slope, fit_data |-> fit.fit_data] >>
    /\ pc' = "done"
    /\ UNCHANGED <<rng, inputs, gamma, D, N, time, x, y, vx, vy, i, msd_total, fit,
                   printed, err, arg, res, rngAtCall, drawlog, ref>>

-----------------------------------------------------------------------------
(* Inputs *)

MkInputs(m, r, x0, y0, dt, T, u) ==
    [mass |-> R(m), radius |-> R(r), x0 |-> R(x0), y0 |-> R(y0),
     dt |-> R(dt), T |-> R(T), is_underdamped |-> u]

NoInputs == MkInputs(0, 0, 0, 0, 0, 0, FALSE)

\* the radicand of the noise amplitude is the square of a rational (or
\* negative): the model takes square roots exactly
ExactNoise(in) ==
    \/ Gamma(in) = R(0) \/ in.dt = R(0)
    \/ IF in.is_underdamped
       THEN HasSqrt(RDiv(RMul(RMul(RMul(R(2), Gamma(in)), kB), T_kelvin), in.dt))
       ELSE HasSqrt(RMul(RMul(R(2), RDiv(RMul(kB, T_kelvin), Gamma(in))), in.dt))

\* inputs with the timestep and the total time typed as decimals
WithTimes(in, dt, T) == [in EXCEPT !.dt = dt, !.T = T]

\* Inputs of a simulation called on its own: valid parameters, trajectories
\* of 0..MaxN samples, total times that are and are not multiples of dt,
\* and dt = 0.1 with T = 0.3, whose float64 quotient is below 3.
SimInputs ==
    { in \in { MkInputs(p[1], p[2], o[1], o[2], p[3], n * p[3] + (p[3] - 1), u) :
                 p \in {<<2, 1, 4>>, <<1, 4, 1>>}, o \in {<<0, 0>>, <<1, 3>>},
                 n \in 0..MaxN, u \in BOOLEAN }
              \cup { WithTimes(MkInputs(1, 10, 1, 3, 0, 0, u), <<1, 10>>, <<3, 10>>) :
                       u \in BOOLEAN } :
        ExactNoise(in) }

\* The Euler recursion v := (1 - gamma*dt/mass) * v + ... keeps exact values
\* small when the factor is 0 or -1, when the mass is zero (inf / nan) or
\* when the noise amplitude is nan.
Tame(in) ==
    \/ ~in.is_underdamped
    \/ in.mass = R(0)
    \/ RLt(RMul(Gamma(in), in.dt), R(0))
    \/ RDiv(RMul(Gamma(in), in.dt), in.mass) \in {R(1), R(2)}

\* the factor |gamma*dt/mass| of the Euler recursion is at most 4
Slow(in) ==
    LET q == RDiv(RMul(Gamma(in), in.dt), in.mass)
    IN  IsFinite(q) /\ Abs(q[1]) <= 4 * q[2]

\* Timesteps and total times typed: whole numbers, valid and invalid, and
\* decimals whose float64 quotient falls below the whole number (0.3 / 0.1,
\* 0.7 / 0.1); n is the number of samples they give.
Durations ==
    { [dt |-> p[1], T |-> p[2],
       n  |-> IF p[1] = R(0) THEN 0 ELSE NumSamples([dt |-> p[1], T |-> p[2]])] :
        p \in ({R(-1), R(0), R(1), R(5)} \X {R(-1), R(0), R(1), R(3), R(22), R(32), R(159)})
               \cup ({<<1, 10>>} \X {<<3, 10>>, <<7, 10>>}) }

\* Inputs of main: valid and invalid parameters, trajectories of up to
\* MaxSamples samples.  Underdamped runs are taken where Tame holds, and up
\* to MaxN samples where Slow holds.
MainInputs ==
    UNION { { in \in { WithTimes(MkInputs(m, r, x0, 0, 0, 0, u), p.dt, p.T) :
                         m \in {-1, 0, 1, 2}, r \in {-1, 0, 1, 4, 5, 10, 20},
                         x0 \in {0, 1}, u \in BOOLEAN } :
                /\ ExactNoise(in)
                /\ in.dt # R(0) => (Tame(in) \/ (p.n <= MaxN /\ Slow(in))) } :
            p \in { d \in Durations : d.n <= MaxSamples } }

-----------------------------------------------------------------------------
(* The simulation called on its own, as tests/test_msd_analysis.py does,   *)
(* with other users of np.random running between the calls                 *)

Resting == pc \in {"idle", "sim_returned", "error"}

\* the caller's variables once the caller has moved on
Dropped ==
    /\ gamma' = R(0) /\ D' = R(0) /\ N' = 0 /\ time' = <<>>
    /\ x' = <<>> /\ y' = <<>> /\ vx' = <<>> /\ vy' = <<>> /\ i' = 0
    /\ err' = None
    /\ drawlog' = <<>>
    /\ rngAtCall' = 0

\* inputs = {...};  initialize_parameters(inputs);  simulate_*(inputs, ...)
CallSimulation ==
    /\ Resting
    /\ inputs' \in SimInputs
    /\ pc' = "init"
    /\ Dropped
    /\ UNCHANGED <<rng, msd_total, fit, printed, plotted, arg, res, ref>>

\* some other code draws from np.random
OtherDraw ==
    /\ Resting
    /\ rng' = NextRng(rng)
    /\ pc' = "idle"
    /\ inputs' = NoInputs
    /\ Dropped
    /\ UNCHANGED <<msd_total, fit, printed, plotted, arg, res, ref>>

\* some other code seeds np.random
OtherSeed ==
    /\ Resting
    /\ \E s \in 0..(RngMod - 1) : rng' = SeedState(s)
    /\ pc' = "idle"
    /\ inputs' = NoInputs
    /\ Dropped
    /\ UNCHANGED <<msd_total, fit, printed, plotted, arg, res, ref>>

InitCommon ==
    /\ inputs = NoInputs
    /\ gamma = R(0) /\ D = R(0) /\ N = 0 /\ time = <<>>
    /\ x = <<>> /\ y = <<>> /\ vx = <<>> /\ vy = <<>> /\ i = 0
    /\ msd_total = <<>>
    /\ fit = NoFit
    /\ printed = <<>> /\ plotted = <<>>
    /\ err = None
    /\ rngAtCall = 0
    /\ drawlog = <<>>
    /\ ref = <<>>

InitSim ==
    /\ pc = "idle"
    /\ rng \in 0..(RngMod - 1)
    /\ arg = <<>> /\ res = <<>>
    /\ InitCommon

NextSim ==
    \/ CallSimulation
    \/ InitializeParameters
    \/ SimulateEnter
    \/ UnderdampedStep
    \/ OverdampedStep
    \/ SimulateReturn(TRUE)
    \/ OtherDraw
    \/ OtherSeed

SpecSim == InitSim /\ [][NextSim]_vars

-----------------------------------------------------------------------------
(* The main pipeline, run once *)

\* the generator's state when the process starts is not the program's
\* choice: two of its states are taken
InitMain ==
    /\ pc = "input"
    /\ rng \in {0, RngMod - 1}
    /\ arg = <<>> /\ res = <<>>
    /\ InitCommon

NextMain ==
    \/ GetUserInputs(MainInputs)
    \/ InitializeParameters
    \/ SimulateEnter
    \/ UnderdampedStep
    \/ OverdampedStep
    \/ SimulateReturn(FALSE)
    \/ ComputeMsd
    \/ ComputeLogSlope
    \/ PrintSlope
    \/ PlotLogMsd

SpecMain == InitMain /\ [][NextMain]_vars

-----------------------------------------------------------------------------
(* compute_msd called on its own *)

SeqsOver(S, lo, hi) == UNION { [1..n -> S] : n \in lo..hi }

Coords == { R(c) : c \in (-1)..MaxCoord }

MsdArgs == SeqsOver(Coords, 1, MaxLen)

PureFrame == UNCHANGED <<rng, inputs, gamma, D, N, time, x, y, vx, vy, i, msd_total,
                         fit, printed, plotted, err, rngAtCall, drawlog, ref>>

InitMsd ==
    /\ pc = "call"
    /\ rng = 0
    /\ arg \in MsdArgs
    /\ res = <<>>
    /\ InitCommon

ApplyComputeMsd ==
    /\ pc = "call"
    /\ res' = compute_msd(arg)
    /\ pc' = "returned"
    /\ arg' = arg
    /\ PureFrame

NextMsd == ApplyComputeMsd

SpecMsd == InitMsd /\ [][NextMsd]_vars

-----------------------------------------------------------------------------
(* compute_log_slope called on its own *)

\* strictly increasing series of whole-number times
Increasing(ts) == \A k \in 1..(Len(ts) - 1) : ts[k] < ts[k + 1]

FitTimes == { ts \in SeqsOver(0..MaxFitLen, 1, MaxFitLen) : Increasing(ts) }

\* the arguments of one call: the times and the window as float64
FitArg(ts, ms, lo, hi) ==
    [time      |-> [k \in 1..Len(ts) |-> FromInt(ts[k])],
     msd_total |-> ms,
     fit_range |-> <<FromInt(lo), FromInt(hi)>>]

InitFit ==
    /\ pc = "call"
    /\ rng = 0
    /\ \E ts \in FitTimes, lo \in (-1)..MaxFitLen, hi \in (-1)..MaxFitLen :
         \E ms \in [1..Len(ts) -> {R(-1), R(0), R(1)}] :
           arg = FitArg(ts, ms, lo, hi)
    /\ res = <<>>
    /\ InitCommon

ApplyComputeLogSlope ==
    /\ pc = "call"
    /\ \E o \in compute_log_slope(arg.time, arg.msd_total, arg.fit_range) :
         /\ res' = <<o>>
         /\ pc' = IF o.err = None THEN "returned" ELSE "raised"
    /\ arg' = arg
    /\ PureFrame

NextFit == ApplyComputeLogSlope

SpecFit == InitFit /\ [][NextFit]_vars

-----------------------------------------------------------------------------
(* The MSD derived from the velocity autocorrelation.  compute_velocity,   *)
(* compute_vacf and compute_msd_from_vacf are imported by                  *)
(* test_msd_analysis.py; their text is not in the source tree, and they    *)
(* are written here from the specification's description.                  *)

\* velocity[i]: central difference inside, one-sided at the two ends, on a
\* time series of uniform spacing dt
compute_velocity(xs, dt) ==
    LET n == Len(xs)
    IN  [k \in 1..n |->
           IF k = 1 THEN RDiv(RSub(xs[2], xs[1]), dt)
           ELSE IF k = n THEN RDiv(RSub(xs[n], xs[n - 1]), dt)
           ELSE RDiv(RSub(xs[k + 1], xs[k - 1]), RMul(R(2), dt))]

\* vacf[lag] = mean over valid i of v[i] * v[i + lag], for lag in 0..N-1
compute_vacf(v) ==
    [k \in 1..Len(v) |-> Mean([j \in 1..(Len(v) - (k - 1)) |-> RMul(v[j], v[j + (k - 1)])])]

\* np.cumsum
Cumsum(a) == [k \in 1..Len(a) |-> SumSeq(a, k)]

\* the same without the entry for lag 0 set to zero
NoLeadingZero(vacf, dt) ==
    [k \in 1..Len(vacf) |->
       RMul(RMul(R(2), RMul(dt, dt)), Cumsum(Cumsum(vacf))[k])]

\* msd[k] = 2 * dt^2 * sum_{i=1..k} sum_{j=0..i-1} vacf[j];  msd[0] = 0
compute_msd_from_vacf(vacf, dt) ==
    [k \in 1..Len(vacf) |->
       IF k = 1 THEN R(0)
       ELSE RMul(RMul(R(2), RMul(dt, dt)), Cumsum(Cumsum(vacf))[k - 1])]

\* positions -> velocity -> VACF -> MSD; fewer than two positions are refused
MsdFromVacf(a) ==
    IF Len(a.x) < 2 THEN [err |-> "InsufficientData", msd |-> <<>>]
    ELSE [err |-> None,
          msd |-> compute_msd_from_vacf(compute_vacf(compute_velocity(a.x, a.dt)), a.dt)]

VacfArgs == { [x |-> xs, dt |-> d] : xs \in SeqsOver(Coords, 1, MaxLen), d \in {R(1), <<1, 2>>} }

InitVacf ==
    /\ pc = "call"
    /\ rng = 0
    /\ arg \in VacfArgs
    /\ res = <<>>
    /\ InitCommon

ApplyMsdFromVacf ==
    /\ pc = "call"
    /\ LET o == MsdFromVacf(arg) IN
         /\ res' = o.msd
         /\ err' = o.err
         /\ pc' = IF o.err = None THEN "returned" ELSE "raised"
    /\ arg' = arg
    /\ UNCHANGED <<rng, inputs, gamma, D, N, time, x, y, vx, vy, i, msd_total,
                   fit, printed, plotted, rngAtCall, drawlog, ref>>

NextVacf == ApplyMsdFromVacf

SpecVacf == InitVacf /\ [][NextVacf]_vars

-----------------------------------------------------------------------------
(* Properties of compute_msd *)

\* the sum of (r[i+L] - r[i])^2 over i in 0..n-1, on whole-number positions
RECURSIVE SquaredLagSum(_, _, _)
SquaredLagSum(r, L, n) ==
    IF n = 0 THEN 0
    ELSE SquaredLagSum(r, L, n - 1)
         + (At(r, n - 1 + L)[1] - At(r, n - 1)[1]) * (At(r, n - 1 + L)[1] - At(r, n - 1)[1])

IsConstant(r) == \A j, k \in 1..Len(r) : r[j] = r[k]

\* C3: compute_msd returns as many entries as it was given positions, with
\* msd[0] = 0 and, at every lag L in 1..N-1, the sum of (r[i+L] - r[i])^2
\* over i in 0..N-L-1 divided by N-L; no entry is negative, and a constant
\* sequence gives zero at every lag.
C3_MsdIsLagAverage ==
    pc = "returned" =>
        /\ Len(res) = Len(arg)
        /\ At(res, 0) = R(0)
        /\ \A L \in 1..(Len(arg) - 1) :
             At(res, L) = Norm(SquaredLagSum(arg, L, Len(arg) - L), Len(arg) - L)
        /\ \A k \in 1..Len(res) : IsFinite(res[k]) /\ res[k][1] >= 0
        /\ IsConstant(arg) => \A k \in 1..Len(res) : res[k] = R(0)

\* a sequence that moves, of the longest length, whose lags average unequal
\* numbers of pairs to unequal values
C3_Witness ==
    /\ pc = "returned"
    /\ Len(arg) = MaxLen
    /\ ~IsConstant(arg)
    /\ At(res, 1) # At(res, 2)
    /\ At(res, MaxLen - 1) # R(0)

-----------------------------------------------------------------------------
(* Properties of the MSD derived from the VACF *)

NonDecreasing(a) == \A k \in 1..(Len(a) - 1) : ~RLt(a[k + 1], a[k])

NonNegative(a) == \A k \in 1..Len(a) : ~RLt(a[k], R(0))

\* C4 as stated: from every sequence of two or more positions the MSD
\* derived from the VACF is non-negative at every index and non-decreasing.
C4_NonNegativeNonDecreasing ==
    pc = "returned" => NonNegative(res) /\ NonDecreasing(res)

\* C4, amended: from every sequence of two or more positions the MSD derived
\* from the VACF has one entry per position, msd[0] = 0, and msd[1] and
\* msd[2] are not negative, so that it does not decrease from index 0 to
\* index 1.  (msd[1] = 2 dt^2 vacf[0] is a mean of squares; in
\* msd[2] = 2 dt^2 (2 vacf[0] + vacf[1]) the sum behind vacf[1] is at most
\* that behind vacf[0] in size, and 2 / N >= 1 / (N - 1).)
C4_ZeroThenNonNegative ==
    pc = "returned" =>
        /\ Len(res) = Len(arg.x)
        /\ At(res, 0) = R(0)
        /\ \A k \in 1..2 : k < Len(res) => ~RLt(At(res, k), R(0))
        /\ ~RLt(At(res, 1), At(res, 0))

\* a sequence that turns back: the MSD rises over indices 1 and 2 and then
\* falls
C4_Witness ==
    /\ pc = "returned"
    /\ Len(arg.x) = MaxLen
    /\ RGt(At(res, 1), R(0))
    /\ RGt(At(res, 2), At(res, 1))
    /\ \E k \in 3..(Len(res) - 1) : RLt(At(res, k), At(res, k - 1))

-----------------------------------------------------------------------------
(* Properties of the simulation *)

\* C1: two simulations with the same parameters (the seed is the same in
\* every call) return the same x and y, whatever simulations, draws and
\* seedings ran before and between them.
C1_SameParametersSameTrajectory ==
    (pc = "sim_returned" /\ ref # <<>> /\ ref[1].inputs = inputs) =>
        (ref[1].x = x /\ ref[1].y = y)

\* a second run of an earlier call's parameters, entered with the generator
\* in another state, whose positions have moved
C1_Witness ==
    /\ pc = "sim_returned"
    /\ ref # <<>>
    /\ ref[1].inputs = inputs
    /\ ref[1].seeded # (rngAtCall = SeedState(Seed))
    /\ N = MaxN
    /\ At(y, 1) # At(y, 0)
    /\ At(x, 2) # At(x, 1)

\* floor of a float64 value, |f| < 2^31
FFloor(f) ==
    IF f.s >= 0 THEN FTrunc(f)
    ELSE IF \E k \in 1..MantBits : k > f.e + 1 /\ f.m[k] = 1 THEN FTrunc(f) - 1
    ELSE FTrunc(f)

\* floor(T / dt), the quotient being the float64 quotient, dt # 0
FloorOfQuotient(in) == FFloor(FDiv(ToFloat(in.T), ToFloat(in.dt)))

\* C2: with dt > 0, total time > 0 and N = floor(T / dt) >= 2 (the float64
\* quotient), in both modes, x and y have exactly N entries from allocation
\* to return, and entry 0 is the origin supplied at every step of the loop
\* and at return.
C2_LengthAndOrigin ==
    ( /\ pc \in {"loop", "sim_returned"}
      /\ RGt(inputs.dt, R(0)) /\ RGt(inputs.T, R(0)) ) =>
        LET n == FloorOfQuotient(inputs) IN
        n >= 2 =>
            /\ Len(x) = n
            /\ Len(y) = n
            /\ At(x, 0) = inputs.x0
            /\ At(y, 0) = inputs.y0

\* a returned run whose total time is not a multiple of dt, from an origin
\* off zero, that has moved away from it
C2_Witness ==
    /\ pc = "sim_returned"
    /\ inputs.dt = R(4) /\ inputs.T = R(4 * MaxN + 3)
    /\ Len(x) = MaxN
    /\ inputs.x0 = R(1) /\ inputs.y0 = R(3)
    /\ At(y, 1) # At(y, 0)
    /\ At(x, 0) = R(1) /\ At(y, 0) = R(3)

\* C8 as stated: a simulation leaves the process-wide generator as it found
\* it, so that code drawing afterwards sees the stream it would have seen.
C8_GeneratorUnchanged ==
    pc = "sim_returned" => rng = rngAtCall

\* the generator after n draws from seed 42
RECURSIVE NthState(_)
NthState(n) == IF n = 0 THEN SeedState(Seed) ELSE NextRng(NthState(n - 1))

\* the n-th value drawn after seeding, n = 1, 2, ...
NthDraw(n) == Randn(NthState(n - 1))

\* one explicit Euler update of a velocity, from the previous velocity and a draw
EulerVelocity(v, z) ==
    RAdd(v, RMul(RDiv(RAdd(RNeg(RMul(gamma, v)), RMul(SigmaUnder(gamma, inputs.dt), z)),
                      inputs.mass),
                 inputs.dt))

\* C9: in underdamped mode both velocities start at 0; step k (1..N-1) takes
\* draw 2k-1 for x and draw 2k for y, sets v[k] from v[k-1] and the draw,
\* then x[k] = x[k-1] + v[k]*dt from the new v[k]; after k steps 2k draws
\* have been consumed, and at return exactly N-1 steps have run.
C9_EulerStepping ==
    (pc \in {"loop", "sim_returned"} /\ inputs.is_underdamped) =>
        /\ At(vx, 0) = R(0) /\ At(vy, 0) = R(0)
        /\ \A k \in 1..(i - 1) :
             /\ At(vx, k) = EulerVelocity(At(vx, k - 1), NthDraw(2 * k - 1))
             /\ At(vy, k) = EulerVelocity(At(vy, k - 1), NthDraw(2 * k))
             /\ At(x, k) = RAdd(At(x, k - 1), RMul(At(vx, k), inputs.dt))
             /\ At(y, k) = RAdd(At(y, k - 1), RMul(At(vy, k), inputs.dt))
             /\ drawlog[2 * k - 1] = [axis |-> "x", step |-> k, pos |-> 2 * k - 1,
                                      val |-> NthDraw(2 * k - 1)]
             /\ drawlog[2 * k] = [axis |-> "y", step |-> k, pos |-> 2 * k,
                                  val |-> NthDraw(2 * k)]
        /\ Len(drawlog) = 2 * (i - 1)
        /\ rng = NthState(2 * (i - 1))
        /\ pc = "sim_returned" => i = N

\* an underdamped run of the longest length, returned, whose two axes drew
\* different values and moved
C9_Witness ==
    /\ pc = "sim_returned"
    /\ inputs.is_underdamped
    /\ N = MaxN
    /\ Len(drawlog) = 2 * (MaxN - 1)
    /\ At(vx, 1) # At(vy, 1)
    /\ At(vx, 2) # At(vx, 1)
    /\ At(x, 2) # At(x, 1)

-----------------------------------------------------------------------------
(* Properties of compute_log_slope *)

\* the indices (from 1) of the samples strictly inside the window
Inside(a) ==
    { k \in 1..Len(a.time) :
        FLt(a.fit_range[1], a.time[k]) /\ FLt(a.time[k], a.fit_range[2]) }

\* the members of a set of indices in increasing order
Ascending(S) ==
    CHOOSE f \in [1..Cardinality(S) -> S] :
        \A j, k \in 1..Cardinality(S) : j < k => f[j] < f[k]

\* a sample inside the window whose logarithm is undefined
LogUndefined(a) ==
    \E k \in Inside(a) : ~FGt(a.time[k], FZero) \/ ~RGt(a.msd_total[k], R(0))

\* C6 as stated: with fewer than two samples strictly inside the window, or
\* a sample inside it whose time or MSD is not positive, the call fails and
\* returns no slope.
C6_FailsWithoutSlope ==
    (pc \in {"returned", "raised"} /\ (Cardinality(Inside(arg)) < 2 \/ LogUndefined(arg))) =>
        (pc = "raised" /\ res[1].slope = <<>>)

\* C7 as stated: a successful call returns a slope, an intercept and the
\* in-order (time, msd) pairs of exactly the samples strictly inside the
\* window.
C7_SlopeInterceptPairs ==
    pc = "returned" =>
        LET idx == Ascending(Inside(arg)) IN
        /\ res[1].slope # <<>>
        /\ "intercept" \in DOMAIN res[1]
        /\ res[1].fit_data = << [k \in 1..Len(idx) |-> arg.time[idx[k]]],
                                [k \in 1..Len(idx) |-> arg.msd_total[idx[k]]] >>

-----------------------------------------------------------------------------
(* Properties of main *)

Positive(q) == RGt(q, R(0))

\* parameters the specification calls invalid
Invalid(in) ==
    \/ ~Positive(in.mass) \/ ~Positive(in.radius)
    \/ ~Positive(in.dt) \/ ~Positive(in.T)
    \/ FloorOfQuotient(in) < 2

\* C5 as stated: a run given a non-positive mass, radius, dt or total time,
\* or fewer than two samples, stops before any trajectory is generated and
\* produces no trajectory, MSD, printed slope or plot.
C5_InvalidParametersRefused ==
    (pc # "input" /\ Invalid(inputs)) =>
        /\ pc \in {"init", "error"}
        /\ x = <<>> /\ y = <<>>
        /\ msd_total = <<>>
        /\ printed = <<>>
        /\ plotted = <<>>

\* the sample indices (from 0) of the points the fit returned
Entered ==
    { k \in 0..(Len(time) - 1) :
        \E j \in 1..Len(fit.fit_data[1]) : fit.fit_data[1][j] = Log10F(At(time, k)) }

\* the slope is printed once both MSDs are computed and added index by index
PrintedAfterSum ==
    printed # <<>> =>
        /\ Len(msd_total) = N
        /\ \A k \in 0..(N - 1) :
             At(msd_total, k) = RAdd(At(compute_msd(x), k), At(compute_msd(y), k))
        /\ printed = fit.slope

\* C10 as stated: every point of the fit has sample index >= 2 and index
\* < (N-1)/10, and the slope is printed only after the MSDs are summed.
C10_WindowBelowTenth ==
    /\ fit.status = "returned" => \A k \in Entered : k >= 2 /\ 10 * k < N - 1
    /\ PrintedAfterSum

\* C10, amended: every point of the fit has sample index >= 2 and index
\* <= (N-1)/10 (the zero-time sample and the sample at time[1] never enter;
\* the sample at index (N-1)/10 enters when its rounded time falls below
\* time[-1]/10), and the slope is printed only after the MSDs are summed.
C10_WindowUpToTenth ==
    /\ fit.status = "returned" => \A k \in Entered : k >= 2 /\ 10 * k <= N - 1
    /\ PrintedAfterSum

\* a printed slope of a fit that the sample at index (N-1)/10 entered
C10_Witness ==
    /\ pc = "done"
    /\ printed # <<>>
    /\ printed[1].val = "finite"
    /\ N = 31
    /\ Entered = {2, 3}
    /\ At(msd_total, 3) # R(0)

====
